---- MODULE Spec2Model ----
(***************************************************************************)
(* Model of ctsm_py:                                                       *)
(*   - deduplex() of ctsm_py/fates_xarray_funcs.py, which splits a         *)
(*     multiplexed FATES dimension into its two constituent dimensions;    *)
(*   - the sowing/harvest date extraction of 1d_crop_work.py.              *)
(* Arrays are labelled arrays: a sequence of dimension names, an extent    *)
(* per dimension and a value per index assignment.  Dimension names are    *)
(* sequences of tokens, so that "fates_lev" + short is a concatenation.    *)
(***************************************************************************)
EXTENDS Integers, Sequences, FiniteSets, TLC

\* ------------------------------------------------------------------------
\* Bounds
\* ------------------------------------------------------------------------
MaxComb == 7          \* largest extent of the multiplexed dimension
MaxN == 3             \* largest extent of a constituent dimension
MaxT == 5             \* longest phase series drawn by LoadSeries

\* ------------------------------------------------------------------------
\* Labelled arrays
\* ------------------------------------------------------------------------
\* np.nan: the padding of a rolling window and the missing harvest day;
\* no element of an input array and no day of year is negative
NaN == -1

Range(s) == {s[i] : i \in 1..Len(s)}

Max2(a, b) == IF a > b THEN a ELSE b

\* all index assignments of an array with the given extents
IndexSet(sizes) ==
  LET top == Max2(MaxComb, MaxN)
  IN {f \in [DOMAIN sizes -> 0..top] : \A d \in DOMAIN sizes : f[d] < sizes[d]}

\* f with dimension d dropped
Drop(f, d) == [x \in (DOMAIN f) \ {d} |-> f[x]]

\* f with dimension d (re)bound to index i
Bind(f, d, i) == [x \in (DOMAIN f) \cup {d} |-> IF x = d THEN i ELSE f[x]]

FatesLev == "fates_lev"
TimeDim == <<"time">>
LatDim == <<"lat">>

\* the dimensions of the Dataset, other than the multiplexed one
DatasetDims == {TimeDim, LatDim, <<FatesLev, "age">>, <<FatesLev, "pft">>}

\* "fates_lev" + dim_short
LevName(dim_short) == <<FatesLev>> \o <<dim_short>>

\* "fates_lev" + dim1_short + dim2_short
CombinedName(dim1_short, dim2_short) == <<FatesLev>> \o <<dim1_short>> \o <<dim2_short>>

\* _get_check_dim: the long name, or NameError when it is not on the Dataset
GetCheckDim(dim_short) ==
  IF LevName(dim_short) \notin DatasetDims
    THEN [err |-> "NameError", dim |-> <<>>]
    ELSE [err |-> "none", dim |-> LevName(dim_short)]

\* RollingConstruct with the window ending one position early
RollingConstruct_early(da, dim, n, newdim) ==
  LET sizes == [d \in (DOMAIN da.sizes) \cup {newdim} |->
                  IF d = newdim THEN n ELSE da.sizes[d]]
  IN [dims |-> Append(da.dims, newdim),
      sizes |-> sizes,
      vals |-> [g \in IndexSet(sizes) |->
                  LET src == g[dim] - n + g[newdim]
                  IN IF src < 0 THEN NaN
                     ELSE da.vals[Bind(Drop(g, newdim), dim, src)]]]

\* da.rolling({dim: n}, center=False).construct(newdim): a trailing window of
\* n positions ending at each position of dim, padded with NaN at the start
RollingConstruct(da, dim, n, newdim) ==
  LET sizes == [d \in (DOMAIN da.sizes) \cup {newdim} |->
                  IF d = newdim THEN n ELSE da.sizes[d]]
  IN [dims |-> Append(da.dims, newdim),
      sizes |-> sizes,
      vals |-> [g \in IndexSet(sizes) |->
                  LET src == g[dim] - (n - 1) + g[newdim]
                  IN IF src < 0 THEN NaN
                     ELSE da.vals[Bind(Drop(g, newdim), dim, src)]]]

\* number of positions picked by slice(start, None, step) on an extent
SliceCount(extent, start, step) ==
  IF start >= extent THEN 0 ELSE ((extent - 1 - start) \div step) + 1

\* da.isel({dim: slice(start, None, step)})
IselSlice(da, dim, start, step) ==
  LET sizes == [d \in DOMAIN da.sizes |->
                  IF d = dim THEN SliceCount(da.sizes[dim], start, step)
                  ELSE da.sizes[d]]
  IN [dims |-> da.dims,
      sizes |-> sizes,
      vals |-> [g \in IndexSet(sizes) |->
                  da.vals[Bind(g, dim, start + g[dim] * step)]]]

\* da.rename({old: new})
Rename(da, old, new) ==
  LET sizes == [d \in ((DOMAIN da.sizes) \ {old}) \cup {new} |->
                  IF d = new THEN da.sizes[old] ELSE da.sizes[d]]
  IN [dims |-> [i \in 1..Len(da.dims) |->
                  IF da.dims[i] = old THEN new ELSE da.dims[i]],
      sizes |-> sizes,
      vals |-> [g \in IndexSet(sizes) |->
                  da.vals[Bind(Drop(g, new), old, g[new])]]]

\* da.assign_coords({dim: coord}): the coordinate must have the extent of dim
AssignCoordsFits(da, dim, n) == da.sizes[dim] = n

\* NewDimOrder with dim1 appended after dim2 instead of before it
RECURSIVE NewDimOrder_after(_, _, _)
NewDimOrder_after(dims, dim1, dim2) ==
  IF dims = <<>> THEN <<>>
  ELSE LET dim == Head(dims)
       IN (IF dim # dim1 THEN <<dim>> ELSE <<>>)
          \o (IF dim = dim2 THEN <<dim1>> ELSE <<>>)
          \o NewDimOrder_after(Tail(dims), dim1, dim2)

\* the loop of lines 83-88 over the dimensions of da_out
RECURSIVE NewDimOrder(_, _, _)
NewDimOrder(dims, dim1, dim2) ==
  IF dims = <<>> THEN <<>>
  ELSE LET dim == Head(dims)
       IN (IF dim = dim2 THEN <<dim1>> ELSE <<>>)
          \o (IF dim # dim1 THEN <<dim>> ELSE <<>>)
          \o NewDimOrder(Tail(dims), dim1, dim2)

\* da.transpose(*order): values are addressed by name, only the order changes
Transpose(da, order) == [dims |-> order, sizes |-> da.sizes, vals |-> da.vals]

Failed(kind) == [status |-> kind, dims |-> <<>>, sizes |-> <<>>, vals |-> <<>>]

Returned(da) == [status |-> "ok", dims |-> da.dims, sizes |-> da.sizes, vals |-> da.vals]

\* lines 72-79
SplitDim(da_in, dim_combined, dim1, dim2, n_dim1) ==
  Rename(IselSlice(RollingConstruct(da_in, dim_combined, n_dim1, dim1),
                   dim_combined, n_dim1 - 1, n_dim1),
         dim_combined, dim2)

\* deduplex(dataset, this_var, dim1_short, dim2_short, preserve_order)
\* ds_sizes: the extents of the Dataset's dimensions; var_kind: type of this_var
deduplex(ds_sizes, var_kind, da_in, dim1_short, dim2_short, preserve_order) ==
  IF var_kind \notin {"DataArray", "str"} THEN Failed("TypeError")
  ELSE IF CombinedName(dim1_short, dim2_short) \notin Range(da_in.dims)
    THEN Failed("NameError")
  ELSE IF GetCheckDim(dim1_short).err # "none" THEN Failed("NameError")
  ELSE IF GetCheckDim(dim2_short).err # "none" THEN Failed("NameError")
  ELSE
    LET dim_combined == CombinedName(dim1_short, dim2_short)
        dim1 == GetCheckDim(dim1_short).dim
        dim2 == GetCheckDim(dim2_short).dim
        n_dim1 == ds_sizes[dim1]
        split == SplitDim(da_in, dim_combined, dim1, dim2, n_dim1)
    IN IF ~AssignCoordsFits(split, dim1, ds_sizes[dim1]) THEN Failed("ValueError")
       ELSE IF ~AssignCoordsFits(split, dim2, ds_sizes[dim2]) THEN Failed("ValueError")
       ELSE IF preserve_order
         THEN Returned(Transpose(split, NewDimOrder(split.dims, dim1, dim2)))
         ELSE Returned(split)

\* ------------------------------------------------------------------------
\* Sowing and harvest dates (1d_crop_work.py)
\* ------------------------------------------------------------------------
\* CPHASE value of a crop that is not growing
Fallow == 4

PhaseCodes == 0..Fallow

Years == {2001, 2002, 2003}

Days == {100, 300}

\* rows of year_jday: <<year, day of year>>
DatePoints == {<<y, d>> : y \in Years, d \in Days}

Before(p, q) == p[1] < q[1] \/ (p[1] = q[1] /\ p[2] < q[2])

\* time indexes: strictly increasing in calendar time
TimeIndexes(T) ==
  {s \in [1..T -> DatePoints] : \A i \in 1..(T - 1) : Before(s[i], s[i + 1])}

\* is_sdate_of with the event put on the later step of the transition
is_sdate_of_later(cphase) ==
  [t \in 1..Len(cphase) |->
     t > 1 /\ cphase[t - 1] = Fallow /\ cphase[t] < Fallow]

\* lines 196-199: phase 4 at t and below 4 at t+1; False appended for the last step
is_sdate_of(cphase) ==
  [t \in 1..Len(cphase) |->
     t < Len(cphase) /\ cphase[t] = Fallow /\ cphase[t + 1] < Fallow]

\* is_hdate_of with <= in place of < on the earlier step
is_hdate_of_le(cphase) ==
  [t \in 1..Len(cphase) |->
     t < Len(cphase) /\ cphase[t] <= Fallow /\ cphase[t + 1] = Fallow]

\* lines 200-203: phase below 4 at t and 4 at t+1; False appended for the last step
is_hdate_of(cphase) ==
  [t \in 1..Len(cphase) |->
     t < Len(cphase) /\ cphase[t] < Fallow /\ cphase[t + 1] = Fallow]

\* lines 206-209: the rows of year_jday at the steps where is_somedate holds
RECURSIVE get_dates(_, _)
get_dates(is_somedate, yj) ==
  IF is_somedate = <<>> THEN <<>>
  ELSE (IF Head(is_somedate) THEN <<Head(yj)>> ELSE <<>>)
       \o get_dates(Tail(is_somedate), Tail(yj))

\* line 219: does the first sowing have a larger day of year than the first harvest
FirstIsHarvest(sdates, hdates) == sdates[1][2] > hdates[1][2]

\* lines 234-236: this_hdates[1:,:] followed by the row [last sowing year, NaN]
AppendMissing(sdates, hdates) ==
  (IF hdates = <<>> THEN <<>> ELSE Tail(hdates))
  \o << <<sdates[Len(sdates)][1], NaN>> >>

\* numpy broadcasting of two 1-d operands
Broadcastable(m, n) == m = n \/ m = 1 \/ n = 1

\* line 239: any(this_hdates[:,0] > this_sdates[:,0] + 1), operands broadcast
LateHarvest(sdates, hdates) ==
  LET m == Len(hdates)
      n == Len(sdates)
      len == IF m = 1 THEN n ELSE m
      hy(i) == IF m = 1 THEN hdates[1][1] ELSE hdates[i][1]
      sy(i) == IF n = 1 THEN sdates[1][1] ELSE sdates[i][1]
  IN \E i \in 1..len : hy(i) > sy(i) + 1

\* line 243: rows <<sowing year, sowing day, harvest day>>
ConcatDates(sdates, hdates) ==
  [i \in 1..Len(sdates) |-> <<sdates[i][1], sdates[i][2], hdates[i][2]>>]

VARIABLES
  call,          \* arguments of the last deduplex call
  da_out,        \* what the last deduplex call returned or raised
  pc,            \* position in the script of 1d_crop_work.py
  cphase,        \* CPHASE of the crop, one code per time step
  year_jday,     \* <<year, day of year>> per time step
  is_sdate,
  is_hdate,
  this_sdates,
  this_hdates,
  nsow,
  nhar,
  this_dates,
  err            \* the exception that ended the script, or "none"

vars == <<call, da_out, pc, cphase, year_jday, is_sdate, is_hdate,
          this_sdates, this_hdates, nsow, nhar, this_dates, err>>

splitVars == <<call, da_out>>

cropVars == <<pc, cphase, year_jday, is_sdate, is_hdate,
              this_sdates, this_hdates, nsow, nhar, this_dates, err>>

NoCall == [made |-> FALSE]

Init ==
  /\ call = NoCall
  /\ da_out = Failed("none")
  /\ pc = "idle"
  /\ cphase = <<>>
  /\ year_jday = <<>>
  /\ is_sdate = <<>>
  /\ is_hdate = <<>>
  /\ this_sdates = <<>>
  /\ this_hdates = <<>>
  /\ nsow = 0
  /\ nhar = 0
  /\ this_dates = <<>>
  /\ err = "none"

\* ------------------------------------------------------------------------
\* deduplex calls
\* ------------------------------------------------------------------------
\* where the multiplexed dimension sits among the dimensions of the variable;
\* the variable has neither of the constituent dimensions beforehand
Layouts(dim_combined) ==
  { <<dim_combined, TimeDim, LatDim>>,
    <<TimeDim, dim_combined, LatDim>>,
    <<TimeDim, LatDim, dim_combined>> }

VarCombined == {CombinedName("age", "pft"), CombinedName("sc", "pf")}

Shorts == {"age", "pft", "sc", "pf"}

\* a variable with the given dimensions; every element is a different number
InputArray(dims, dim_comb, comb_extent) ==
  LET sizes == [d \in Range(dims) |->
                  IF d = TimeDim THEN 2 ELSE IF d = LatDim THEN 1 ELSE comb_extent]
  IN [dims |-> dims, sizes |-> sizes,
      vals |-> [f \in IndexSet(sizes) |->
                  f[dim_comb] * 2 + f[TimeDim] + f[LatDim]]]

\* one run is either a call of deduplex or the crop script, never both
Deduplex ==
  /\ ~call.made
  /\ pc = "idle"
  /\ \E comb \in VarCombined, extent \in 1..MaxComb, n_age \in 1..MaxN, n_pft \in 1..MaxN,
     var_kind \in {"DataArray", "str", "int"}, preserve_order \in BOOLEAN,
        dim1_short \in Shorts, dim2_short \in Shorts :
       \E dims \in Layouts(comb) :
         LET ds_sizes == [d \in DatasetDims |->
                            IF d = LevName("age") THEN n_age
                            ELSE IF d = LevName("pft") THEN n_pft
                            ELSE IF d = TimeDim THEN 2 ELSE 1]
             da_in == InputArray(dims, comb, extent)
         IN /\ call' = [made |-> TRUE, da_in |-> da_in, ds_sizes |-> ds_sizes,
                        var_kind |-> var_kind, dim1_short |-> dim1_short,
                        dim2_short |-> dim2_short, preserve_order |-> preserve_order]
            /\ da_out' = deduplex(ds_sizes, var_kind, da_in, dim1_short, dim2_short,
                                  preserve_order)
  /\ UNCHANGED cropVars

\* ------------------------------------------------------------------------
\* the script of 1d_crop_work.py for one crop
\* ------------------------------------------------------------------------
\* lines 185-194: the dataset's time index and the crop's CPHASE series
LoadSeries ==
  /\ pc = "idle"
  /\ ~call.made
  /\ \E T \in 2..MaxT :
       \E ph \in [1..T -> PhaseCodes], yj \in TimeIndexes(T) :
         /\ cphase' = ph
         /\ year_jday' = yj
  /\ pc' = "loaded"
  /\ UNCHANGED <<is_sdate, is_hdate, this_sdates, this_hdates, nsow, nhar,
                 this_dates, err>>
  /\ UNCHANGED splitVars

\* the series of the specification's basic phenology test
LoadBasicCase ==
  /\ pc = "idle"
  /\ ~call.made
  /\ cphase' = <<4, 3, 2, 4, 4, 3, 2, 4>>
  /\ year_jday' = << <<2001, 10>>, <<2001, 40>>, <<2001, 70>>, <<2001, 100>>,
                     <<2001, 200>>, <<2001, 230>>, <<2001, 260>>, <<2001, 290>> >>
  /\ pc' = "loaded"
  /\ UNCHANGED <<is_sdate, is_hdate, this_sdates, this_hdates, nsow, nhar,
                 this_dates, err>>
  /\ UNCHANGED splitVars

\* lines 194-203
FindDates ==
  /\ pc = "loaded"
  /\ is_sdate' = is_sdate_of(cphase)
  /\ is_hdate' = is_hdate_of(cphase)
  /\ pc' = "found"
  /\ UNCHANGED <<cphase, year_jday, this_sdates, this_hdates, nsow, nhar,
                 this_dates, err>>
  /\ UNCHANGED splitVars

\* lines 214-216
GetDates ==
  /\ pc = "found"
  /\ this_sdates' = get_dates(is_sdate, year_jday)
  /\ this_hdates' = get_dates(is_hdate, year_jday)
  /\ pc' = "dates"
  /\ UNCHANGED <<cphase, year_jday, is_sdate, is_hdate, nsow, nhar, this_dates, err>>
  /\ UNCHANGED splitVars

\* lines 218-220; indexing row 0 of an empty array raises IndexError
DiscardFirstHarvest ==
  /\ pc = "dates"
  /\ IF this_sdates = <<>> \/ this_hdates = <<>>
       THEN /\ err' = "IndexError"
            /\ pc' = "error"
            /\ UNCHANGED this_hdates
       ELSE /\ this_hdates' = IF FirstIsHarvest(this_sdates, this_hdates)
                                THEN Tail(this_hdates) ELSE this_hdates
            /\ pc' = "discarded"
            /\ UNCHANGED err
  /\ UNCHANGED <<cphase, year_jday, is_sdate, is_hdate, this_sdates, nsow, nhar,
                 this_dates>>
  /\ UNCHANGED splitVars

\* lines 222-227
CountDates ==
  /\ pc = "discarded"
  /\ nsow' = Len(this_sdates)
  /\ nhar' = Len(this_hdates)
  /\ IF Len(this_sdates) < Len(this_hdates)
       THEN err' = "ValueError: harvests but only sowings" /\ pc' = "error"
       ELSE err' = err /\ pc' = "counted"
  /\ UNCHANGED <<cphase, year_jday, is_sdate, is_hdate, this_sdates, this_hdates,
                 this_dates>>
  /\ UNCHANGED splitVars

\* lines 229-236
AppendNaN ==
  /\ pc = "counted"
  /\ IF nsow > nhar
       THEN IF nsow > nhar + 1
              THEN /\ err' = "ValueError: sowings but only harvests"
                   /\ pc' = "error"
                   /\ UNCHANGED this_hdates
              ELSE /\ this_hdates' = AppendMissing(this_sdates, this_hdates)
                   /\ pc' = "reconciled"
                   /\ UNCHANGED err
       ELSE /\ pc' = "reconciled"
            /\ UNCHANGED <<this_hdates, err>>
  /\ UNCHANGED <<cphase, year_jday, is_sdate, is_hdate, this_sdates, nsow, nhar,
                 this_dates>>
  /\ UNCHANGED splitVars

\* lines 238-240; operands that cannot be broadcast raise ValueError
CheckYears ==
  /\ pc = "reconciled"
  /\ IF ~Broadcastable(Len(this_hdates), Len(this_sdates))
       THEN err' = "ValueError: operands could not be broadcast" /\ pc' = "error"
       ELSE IF LateHarvest(this_sdates, this_hdates)
         THEN err' = "ValueError: harvest not in year of or after sowing" /\ pc' = "error"
         ELSE err' = err /\ pc' = "checked"
  /\ UNCHANGED <<cphase, year_jday, is_sdate, is_hdate, this_sdates, this_hdates,
                 nsow, nhar, this_dates>>
  /\ UNCHANGED splitVars

\* lines 242-245; concatenating arrays with different row counts raises ValueError
PrintDates ==
  /\ pc = "checked"
  /\ IF Len(this_sdates) # Len(this_hdates)
       THEN /\ err' = "ValueError: array dimensions must match"
            /\ pc' = "error"
            /\ UNCHANGED this_dates
       ELSE /\ this_dates' = ConcatDates(this_sdates, this_hdates)
            /\ pc' = "done"
            /\ UNCHANGED err
  /\ UNCHANGED <<cphase, year_jday, is_sdate, is_hdate, this_sdates, this_hdates,
                 nsow, nhar>>
  /\ UNCHANGED splitVars

Next ==
  \/ Deduplex
  \/ LoadSeries
  \/ LoadBasicCase
  \/ FindDates
  \/ GetDates
  \/ DiscardFirstHarvest
  \/ CountDates
  \/ AppendNaN
  \/ CheckYears
  \/ PrintDates

Spec == Init /\ [][Next]_vars

\* ------------------------------------------------------------------------
\* Properties of deduplex
\* ------------------------------------------------------------------------
Returns == call.made /\ da_out.status = "ok"

\* the names and extents of the dimensions of a call that returned
dim_combined == CombinedName(call.dim1_short, call.dim2_short)
dim1 == LevName(call.dim1_short)
dim2 == LevName(call.dim2_short)
n_dim1 == call.ds_sizes[dim1]
n_dim2 == call.ds_sizes[dim2]
combined_extent == call.da_in.sizes[dim_combined]

\* the input element that sits at position i of the multiplexed dimension and
\* at the positions of g on the other dimensions
InputAt(g, i) == call.da_in.vals[Bind(Drop(Drop(g, dim1), dim2), dim_combined, i)]

\* dims with the one dimension old replaced, in place, by the dimensions of new
ReplaceDim(dims, old, new) ==
  LET p == CHOOSE i \in 1..Len(dims) : dims[i] = old
  IN SubSeq(dims, 1, p - 1) \o new \o SubSeq(dims, p + 1, Len(dims))

\* C1: deduplex raises whenever len(dim1) * len(dim2) differs from the extent
\* of the multiplexed dimension; it never returns an array that dropped positions.
C1_InvalidSplitRejected ==
  Returns => n_dim1 * n_dim2 = combined_extent

\* C2 as stated: with dim1 the outer and dim2 the inner dimension, the result
\* holds at (dim1 = a, dim2 = b) the input element at a * len(dim2) + b.
C2_Dim1OuterLayout ==
  (Returns /\ n_dim1 * n_dim2 = combined_extent) =>
    /\ da_out.sizes[dim1] = n_dim1
    /\ da_out.sizes[dim2] = n_dim2
    /\ \A g \in DOMAIN da_out.vals :
         da_out.vals[g] = InputAt(g, g[dim1] * n_dim2 + g[dim2])

\* C2 amended: dim1 is the dimension that varies fastest; the result holds at
\* (dim1 = a, dim2 = b) the input element at b * len(dim1) + a, for all
\* a < len(dim1) and b < len(dim2), and no padding value appears.
C2_Dim1InnerLayout ==
  (Returns /\ n_dim1 * n_dim2 = combined_extent) =>
    /\ da_out.sizes[dim1] = n_dim1
    /\ da_out.sizes[dim2] = n_dim2
    /\ DOMAIN da_out.vals = IndexSet(da_out.sizes)
    /\ \A g \in DOMAIN da_out.vals :
         /\ da_out.vals[g] = InputAt(g, g[dim2] * n_dim1 + g[dim1])
         /\ da_out.vals[g] # NaN

\* a call that split an extent of 6 into blocks of 2 or of 3
C2_Witness ==
  /\ Returns
  /\ n_dim1 * n_dim2 = combined_extent
  /\ n_dim1 > 1
  /\ n_dim2 > 1
  /\ n_dim1 # n_dim2

\* C3 as stated: with preserve_order the multiplexed dimension is replaced in
\* place by the outer dimension followed by the inner one, the inner one being
\* the dimension that varies fastest (dim1, whose extent is the block length).
C3_OuterBeforeInner ==
  (Returns /\ call.preserve_order) =>
    da_out.dims = ReplaceDim(call.da_in.dims, dim_combined, <<dim2, dim1>>)

\* C3 amended: with preserve_order the multiplexed dimension is replaced in
\* place by dim1 followed by dim2, that is the fastest-varying dimension first;
\* every other dimension is there once and keeps its place.
C3_Dim1BeforeDim2 ==
  (Returns /\ call.preserve_order) =>
    da_out.dims = ReplaceDim(call.da_in.dims, dim_combined, <<dim1, dim2>>)

\* a call with preserve_order on a variable whose multiplexed dimension is
\* neither first nor last
C3_Witness ==
  /\ Returns
  /\ call.preserve_order
  /\ call.da_in.dims[2] = dim_combined
  /\ da_out.dims[2] = dim1

\* ------------------------------------------------------------------------
\* Properties of the crop script
\* ------------------------------------------------------------------------
Finished == pc \in {"done", "error"}

\* the events of the series in time order, as detected by lines 196-203
Sowings == get_dates(is_sdate_of(cphase), year_jday)
Harvests == get_dates(is_hdate_of(cphase), year_jday)

FirstEventIsHarvest ==
  Harvests # <<>> /\ (Sowings = <<>> \/ Before(Harvests[1], Sowings[1]))

FirstEventIsSowing ==
  Sowings # <<>> /\ (Harvests = <<>> \/ Before(Sowings[1], Harvests[1]))

\* the harvests that follow a sowing of the record
FollowingHarvests == IF FirstEventIsHarvest THEN Tail(Harvests) ELSE Harvests

BasicCase ==
  /\ cphase = <<4, 3, 2, 4, 4, 3, 2, 4>>
  /\ year_jday = << <<2001, 10>>, <<2001, 40>>, <<2001, 70>>, <<2001, 100>>,
                    <<2001, 200>>, <<2001, 230>>, <<2001, 260>>, <<2001, 290>> >>

\* C4 as stated: the basic series yields exactly one pair, sowing year 2001,
\* sowing day 40, harvest day 290.
C4_OnePairDay40To290 ==
  (BasicCase /\ Finished) =>
    (pc = "done" /\ this_dates = << <<2001, 40, 290>> >>)

\* C4 amended: the basic series yields exactly two pairs, (2001, 10, 70) and
\* (2001, 200, 260): a transition between steps t and t+1 carries the date of
\* step t and each of the two seasons of the series is a pair of its own;
\* no event is left unmatched.
C4_TwoPairs ==
  (BasicCase /\ Finished) =>
    /\ pc = "done"
    /\ this_dates = << <<2001, 10, 70>>, <<2001, 200, 260>> >>
    /\ nsow = nhar

C4_Witness == BasicCase /\ pc = "done" /\ Len(this_dates) = 2

\* C5: a series with n >= 1 sowings and n-1 harvests after the leading harvest
\* raises no error and yields n pairs: sowing k with harvest k for k < n, and
\* the last sowing with the missing-harvest marker.
C5_TrailingOpenSeason ==
  (Finished /\ Sowings # <<>> /\ Len(FollowingHarvests) = Len(Sowings) - 1) =>
    /\ pc = "done"
    /\ this_dates = [k \in 1..Len(Sowings) |->
                       <<Sowings[k][1], Sowings[k][2],
                         IF k < Len(Sowings) THEN FollowingHarvests[k][2] ELSE NaN>>]

\* C6: every emitted pair with a harvest day pairs a sowing of year y with a
\* harvest of year y or y+1.
C6_HarvestWithinOneYear ==
  pc = "done" =>
    \A i \in 1..Len(this_dates) :
      this_hdates[i][2] # NaN =>
        this_hdates[i][1] \in {this_sdates[i][1], this_sdates[i][1] + 1}

\* C7: when the first event of the record is a harvest, that harvest is
\* discarded: it is not counted in nhar and is in no emitted pair.
C7_LeadingHarvestDiscarded ==
  (FirstEventIsHarvest /\ pc \in {"counted", "reconciled", "checked", "done"}) =>
    /\ nhar = Len(Harvests) - 1
    /\ pc = "done" => \A i \in 1..Len(this_hdates) : this_hdates[i] # Harvests[1]

\* the harvests left by the discard rule of line 219
RemainingHarvests ==
  IF Sowings # <<>> /\ Harvests # <<>> /\ Sowings[1][2] > Harvests[1][2]
    THEN Tail(Harvests) ELSE Harvests

\* C8: with the counts left by the discard, more harvests than sowings raises
\* the first count error, more than one sowing too many raises the second,
\* neither yields pairs, and no count error is raised otherwise.
C8_CountErrors ==
  Finished =>
    LET ns == Len(Sowings)
        nh == Len(RemainingHarvests)
        tooManyHarvests == err = "ValueError: harvests but only sowings"
        tooManySowings == err = "ValueError: sowings but only harvests"
    IN /\ nh > ns => (tooManyHarvests /\ this_dates = <<>>)
       /\ ns > nh + 1 => (tooManySowings /\ this_dates = <<>>)
       /\ (ns = nh \/ ns = nh + 1) => (~tooManyHarvests /\ ~tooManySowings)

Detected == pc \notin {"idle", "loaded"}

SowingSteps == {t \in 1..Len(is_sdate) : is_sdate[t]}
HarvestSteps == {t \in 1..Len(is_hdate) : is_hdate[t]}

\* the steps of a set that lie strictly between two steps
Between(steps, t1, t2) == {t \in steps : t1 < t /\ t < t2}

\* C9: detected sowings and harvests alternate: no step is both, the last step
\* is neither, exactly one harvest lies between two consecutive sowings and
\* exactly one sowing between two consecutive harvests, and the two counts
\* differ by at most one.
C9_EventsAlternate ==
  Detected =>
    /\ Len(is_sdate) = Len(cphase)
    /\ Len(is_hdate) = Len(cphase)
    /\ SowingSteps \cap HarvestSteps = {}
    /\ Len(cphase) \notin SowingSteps \cup HarvestSteps
    /\ \A t1, t2 \in SowingSteps :
         (t1 < t2 /\ Between(SowingSteps, t1, t2) = {}) =>
           Cardinality(Between(HarvestSteps, t1, t2)) = 1
    /\ \A t1, t2 \in HarvestSteps :
         (t1 < t2 /\ Between(HarvestSteps, t1, t2) = {}) =>
           Cardinality(Between(SowingSteps, t1, t2)) = 1
    /\ Cardinality(SowingSteps) - Cardinality(HarvestSteps) \in {-1, 0, 1}

\* a series with two sowings and two harvests
C9_Witness ==
  /\ Detected
  /\ Cardinality(SowingSteps) = 2
  /\ Cardinality(HarvestSteps) = 2

\* C10: when the first event of the record is a sowing, no harvest is discarded.
C10_NoDiscardAfterSowing ==
  (FirstEventIsSowing /\ pc = "discarded") => this_hdates = Harvests

====
